---- MODULE Spec2Model ----
(***************************************************************************)
(* usbrelay-rs: discovery and control of USB HID relay boards.              *)
(*                                                                          *)
(* The model follows src/src/usbrelay.rs (UsbRelayBoard::find_relays,       *)
(* read_features, set_state) and src/src/main.rs (list_relays,              *)
(* set_relay_state).  The attached devices and the host HID transport are   *)
(* the environment: what a device advertises is fixed in the initial state, *)
(* what a transport call returns is chosen when the call is made.           *)
(*                                                                          *)
(* A Rust String is modelled by the sequence of its characters (the product *)
(* string) or of its UTF-8 bytes (the serial number); a byte is an integer  *)
(* in 0..255; a buffer [u8; 9] is a sequence of 9 bytes, read through At    *)
(* with the 0-based offsets of the source.                                  *)
(***************************************************************************)
EXTENDS Integers, Sequences, FiniteSets, TLC

(***************************************************************************)
(* Bounds of the model.                                                     *)
(***************************************************************************)
\* most devices attached to the host at once
MaxDevices == 2
\* a caller tries every relay index a board has, the MaxOver indices after
\* them, and 255 (the largest u8)
MaxOver == 1
\* most pieces a product string of SpecProduct is put together from
MaxPieces == 3

(***************************************************************************)
(* Program constants.                                                       *)
(***************************************************************************)
USB_RELAY_VID == 5824
USB_RELAY_PID == 1503
SERIAL_NUMBER_SIZE == 5
\* [0u8; 9]: the size of the feature report and of the output report
REPORT_SIZE == 9
\* relay_count > 8 is refused
MAX_RELAY_COUNT == 8
\* the opcodes of UsbRelayCommand
ReadFeatures == 1
SetSerialNumber == 250
TurnOff == 253
TurnOn == 255

UsbRelayState == {"On", "Off"}

(***************************************************************************)
(* Bytes, buffers and strings.                                              *)
(***************************************************************************)
Byte == 0..255

RECURSIVE Pow2(_)
Pow2(n) == IF n = 0 THEN 1 ELSE 2 * Pow2(n - 1)

\* a & b on u8, bit by bit
RECURSIVE BitAnd(_, _, _)
BitAnd(a, b, n) ==
    IF n = 0 THEN 0
    ELSE ((a % 2) * (b % 2)) + 2 * BitAnd(a \div 2, b \div 2, n - 1)

\* x << n on u8.  The shift amount is below 8 wherever the program shifts
\* (relay_count <= 8); a release build masks a larger amount to its low 3 bits.
Shl8(x, n) == (x * Pow2(n % 8)) % 256

\* buf[i] with the 0-based offset of the source
At(buf, i) == buf[i + 1]

\* [0u8; 9]
ZeroBuf == [i \in 1..REPORT_SIZE |-> 0]

\* buf[i] = v
SetAt(buf, i, v) == [buf EXCEPT ![i + 1] = v]

\* the literal "USBRelay"
Prefix == <<"U", "S", "B", "R", "e", "l", "a", "y">>

\* str::starts_with
StartsWith(s, p) ==
    /\ Len(s) >= Len(p)
    /\ SubSeq(s, 1, Len(p)) = p

\* str::trim_start_matches: the pattern is removed from the front as long as
\* the string starts with it
RECURSIVE TrimStartMatches(_, _)
TrimStartMatches(s, p) ==
    IF Len(p) > 0 /\ StartsWith(s, p)
    THEN TrimStartMatches(SubSeq(s, Len(p) + 1, Len(s)), p)
    ELSE s

Digits == {"0", "1", "2", "3", "4", "5", "6", "7", "8", "9"}

DigitVal(c) ==
    CASE c = "0" -> 0 [] c = "1" -> 1 [] c = "2" -> 2 [] c = "3" -> 3
      [] c = "4" -> 4 [] c = "5" -> 5 [] c = "6" -> 6 [] c = "7" -> 7
      [] c = "8" -> 8 [] c = "9" -> 9

RECURSIVE DecimalValue(_)
DecimalValue(ds) ==
    IF Len(ds) = 0 THEN 0
    ELSE 10 * DecimalValue(SubSeq(ds, 1, Len(ds) - 1)) + DigitVal(ds[Len(ds)])

\* str::parse::<usize>: an optional "+", then at least one decimal digit and
\* nothing else.  (A value above usize::MAX is refused too; the product
\* strings of the model are too short to reach it.)
ParseUsize(s) ==
    LET body == IF Len(s) > 0 /\ s[1] = "+" THEN SubSeq(s, 2, Len(s)) ELSE s
    IN  IF Len(body) > 0 /\ \A i \in 1..Len(body) : body[i] \in Digits
        THEN [ok |-> TRUE, value |-> DecimalValue(body)]
        ELSE [ok |-> FALSE, value |-> 0]

\* a continuation byte 10xxxxxx
IsCont(b) == b >= 128 /\ b <= 191

\* String::from_utf8: whether the bytes are well-formed UTF-8
RECURSIVE Utf8Valid(_)
Utf8Valid(bs) ==
    IF Len(bs) = 0 THEN TRUE
    ELSE LET b == bs[1]
             n == Len(bs)
             rest(k) == SubSeq(bs, k + 1, n)
         IN  IF b < 128 THEN Utf8Valid(rest(1))
             ELSE IF b >= 194 /\ b <= 223
             THEN n >= 2 /\ IsCont(bs[2]) /\ Utf8Valid(rest(2))
             ELSE IF b >= 224 /\ b <= 239
             THEN /\ n >= 3
                  /\ IsCont(bs[2]) /\ IsCont(bs[3])
                  /\ (b = 224 => bs[2] >= 160)
                  /\ (b = 237 => bs[2] <= 159)
                  /\ Utf8Valid(rest(3))
             ELSE IF b >= 240 /\ b <= 244
             THEN /\ n >= 4
                  /\ IsCont(bs[2]) /\ IsCont(bs[3]) /\ IsCont(bs[4])
                  /\ (b = 240 => bs[2] >= 144)
                  /\ (b = 244 => bs[2] <= 143)
                  /\ Utf8Valid(rest(4))
             ELSE FALSE

(***************************************************************************)
(* The operations of UsbRelayBoard as functions of their inputs and of what *)
(* the transport returns.                                                   *)
(***************************************************************************)
\* Option<&str>::None of DeviceInfo::product_string
NoString == <<"<none>">>

\* find_relays, the product string of one device: the error of the first
\* failing step, or Ok and the relay count
ProductCheck(product) ==
    IF product = NoString
    THEN [result |-> "ProductStringError", relay_count |-> 0]
    ELSE IF ~StartsWith(product, Prefix)
    THEN [result |-> "UnsupportedProductError", relay_count |-> 0]
    ELSE LET parsed == ParseUsize(TrimStartMatches(product, Prefix))
         IN  IF ~parsed.ok
             THEN [result |-> "ParseError", relay_count |-> 0]
             ELSE IF parsed.value > MAX_RELAY_COUNT
             THEN [result |-> "UnsupportedProductError", relay_count |-> 0]
             ELSE [result |-> "Ok", relay_count |-> parsed.value]

\* the request buffer of read_features
FeatureRequest == SetAt(ZeroBuf, 0, ReadFeatures)

\* read_features without the check of the number of bytes read
read_features_unchecked_size(fr) ==
    IF fr.err
    THEN [result |-> "TransportError", serial_number |-> <<>>, states |-> 0]
    ELSE LET aux == SubSeq(fr.buf, 1, SERIAL_NUMBER_SIZE)
         IN  IF ~Utf8Valid(aux)
             THEN [result |-> "EncodingError", serial_number |-> <<>>, states |-> 0]
             ELSE [result |-> "Ok", serial_number |-> aux, states |-> At(fr.buf, 7)]

\* read_features: fr is what get_feature_report returned, an error or the
\* number of bytes read with the buffer as the device filled it
read_features(fr) ==
    IF fr.err
    THEN [result |-> "TransportError", serial_number |-> <<>>, states |-> 0]
    ELSE IF fr.rb # Len(fr.buf)
    THEN [result |-> "ProtocolError", serial_number |-> <<>>, states |-> 0]
    ELSE LET aux == SubSeq(fr.buf, 1, SERIAL_NUMBER_SIZE)
         IN  IF ~Utf8Valid(aux)
             THEN [result |-> "EncodingError", serial_number |-> <<>>, states |-> 0]
             ELSE [result |-> "Ok", serial_number |-> aux, states |-> At(fr.buf, 7)]

\* the decoding of the state byte with relay 0 at bit 1
DecodeStates_from_bit1(relay_count, states) ==
    [k \in 1..relay_count |->
        IF BitAnd(states, Shl8(1, k), 8) > 0 THEN "On" ELSE "Off"]

\* find_relays, the loop over 0..relay_count that decodes the state byte
DecodeStates(relay_count, states) ==
    [k \in 1..relay_count |->
        IF BitAnd(states, Shl8(1, k - 1), 8) > 0 THEN "On" ELSE "Off"]

\* the output report of set_state with the relay index as the caller counts
CommandBuf_zero_based(relay_index, state) ==
    LET command == IF state = "On" THEN TurnOn ELSE TurnOff
    IN  SetAt(SetAt(ZeroBuf, 1, command), 2, relay_index % 256)

\* the output report of set_state
CommandBuf(relay_index, state) ==
    LET command == IF state = "On" THEN TurnOn ELSE TurnOff
    IN  SetAt(SetAt(ZeroBuf, 1, command), 2, (relay_index + 1) % 256)

\* set_state, the bounds check on relay_index, negated
IndexInRange_inclusive(self, relay_index) ==
    relay_index <= Len(self.relay_states)

\* set_state, the bounds check: the call goes on when relay_index is below
\* the number of relay states
IndexInRange(self, relay_index) ==
    relay_index < Len(self.relay_states)

\* set_state, a write that counts as done whatever the byte count
WriteComplete_any_count(wr, buf) ==
    ~wr.err

\* set_state, the write is done when the transport returned no error and
\* reported the length of the buffer
WriteComplete(wr, buf) ==
    ~wr.err /\ wr.wb = Len(buf)

\* set_state, an update that stores the state in every entry
Updated_all(relay_states, relay_index, state) ==
    [k \in 1..Len(relay_states) |-> state]

\* set_state, self.relay_states[relay_index] = state
Updated(relay_states, relay_index, state) ==
    [relay_states EXCEPT ![relay_index + 1] = state]

\* set_state storing the state before it looks at what the write returned
set_state_optimistic(self, relay_index, state, wr) ==
    IF ~IndexInRange(self, relay_index)
    THEN [result |-> "IndexOutOfRangeError",
          relay_states |-> self.relay_states, writes |-> <<>>]
    ELSE LET buf == CommandBuf(relay_index, state)
             stored == Updated(self.relay_states, relay_index, state)
         IN  IF wr.err
             THEN [result |-> "TransportError",
                   relay_states |-> stored, writes |-> <<buf>>]
             ELSE IF ~WriteComplete(wr, buf)
             THEN [result |-> "ProtocolError",
                   relay_states |-> stored, writes |-> <<buf>>]
             ELSE [result |-> "Ok", relay_states |-> stored, writes |-> <<buf>>]

\* set_state on the board self: wr is what HidDevice::write returns when it is
\* called, an error or the number of bytes written.  The result, the relay
\* states of the board afterwards and the buffers handed to the transport.
set_state(self, relay_index, state, wr) ==
    IF ~IndexInRange(self, relay_index)
    THEN [result |-> "IndexOutOfRangeError",
          relay_states |-> self.relay_states, writes |-> <<>>]
    ELSE LET buf == CommandBuf(relay_index, state)
         IN  IF wr.err
             THEN [result |-> "TransportError",
                   relay_states |-> self.relay_states, writes |-> <<buf>>]
             ELSE IF ~WriteComplete(wr, buf)
             THEN [result |-> "ProtocolError",
                   relay_states |-> self.relay_states, writes |-> <<buf>>]
             ELSE [result |-> "Ok",
                   relay_states |-> Updated(self.relay_states, relay_index, state),
                   writes |-> <<buf>>]

\* set_relay_state, the boards whose serial number is the one asked for
MatchingRelays(relays, serial_number) ==
    SelectSeq(relays, LAMBDA r : r.serial_number = serial_number)

\* a selection that takes the first of several matching boards
Selection_first_match(relays) ==
    IF Len(relays) = 0 THEN "NotFoundError" ELSE "Ok"

\* set_relay_state, what the number of matching boards decides
Selection(relays) ==
    IF Len(relays) = 0 THEN "NotFoundError"
    ELSE IF Len(relays) > 1 THEN "AmbiguousIdentityError"
    ELSE "Ok"

\* Display of a board: the serial number, then index:state for every relay
DisplayBoard(r) ==
    <<r.serial_number>> \o [k \in 1..Len(r.relay_states) |-> <<k - 1, r.relay_states[k]>>]

(***************************************************************************)
(* The environment: the attached devices and the transport.                 *)
(***************************************************************************)
\* a device of another kind, which the enumeration filters out
OTHER_PID == 1500

Str2 == Prefix \o <<"2">>
Str1 == Prefix \o <<"1">>
Str9 == Prefix \o <<"9">>
StrOther == <<"R", "e", "l", "a", "y", "2">>

\* "ABCDE", "\u{e9}BCD" and a sequence that ends inside a character
SerialA == <<65, 66, 67, 68, 69>>
SerialB == <<195, 169, 66, 67, 68>>
SerialBad == <<65, 66, 67, 68, 195>>

\* the serial numbers a set command may ask for: "Z" is no board's
Targets == {SerialA, SerialB, <<90>>}

Device(vid, pid, product, serial) ==
    [vendor_id |-> vid, product_id |-> pid, product |-> product, serial |-> serial]

\* what a device of Spec may be
Profiles ==
    {Device(USB_RELAY_VID, USB_RELAY_PID, p, s) :
        p \in {Str1, Str2, Str9, StrOther}, s \in {SerialA, SerialB, SerialBad}}
    \cup {Device(USB_RELAY_VID, OTHER_PID, StrOther, SerialA)}

\* the state bytes the devices of Spec start with
InitStateBytes == {170}

\* the byte counts a transport call may report
ByteCounts == {REPORT_SIZE - 1, REPORT_SIZE}

\* what get_feature_report and write may return
TransportOutcomes ==
    {[err |-> TRUE, n |-> 0]} \cup {[err |-> FALSE, n |-> n] : n \in ByteCounts}

\* the relay indices (u8) a caller may pass when the largest board has n relays
RelayIndices(n) == (0..(n - 1 + MaxOver)) \cup {255}

\* the relay count of the largest board among relays
RECURSIVE MaxRelays(_)
MaxRelays(relays) ==
    IF Len(relays) = 0 THEN 0
    ELSE LET m == MaxRelays(Tail(relays))
             n == Len(Head(relays).relay_states)
         IN  IF n > m THEN n ELSE m

VARIABLES
    devs,        \* the attached devices, in the order the host enumerates them
    hw,          \* hw[d]: the relays of device d as its state byte, bit i = relay i
    pc,          \* "idle", "enum" (inside find_relays), "returned", "done"
    cmd,         \* the caller of find_relays: "list", "set" (main.rs) or "api"
    cursor,      \* find_relays: the position in relays_info of the next device
    usb_relays,  \* the boards built so far, then the boards the caller holds
    open,        \* the devices with an open HidDevice handle
    opened,      \* the devices find_relays opened during the last call, in order
    found,       \* the result of find_relays
    status,      \* the result of the command of main.rs
    last,        \* the last call of set_state: arguments, board before and after
    writes,      \* the reports the last set_state or set command wrote
    report,      \* what the last get_feature_report of find_relays returned
    args,        \* the arguments of the set command
    stdout       \* the lines list_relays printed

vars == <<devs, hw, pc, cmd, cursor, usb_relays, open, opened, found, status,
          last, writes, report, args, stdout>>

\* HidDevice::write was not called
NoWrite == [err |-> FALSE, n |-> 0]

NoCall ==
    [called |-> FALSE, device |-> 0, relay_index |-> 0, state |-> "Off",
     before |-> <<>>, after |-> <<>>, result |-> "none", wr |-> NoWrite]

\* get_feature_report was not called
NoRead == [called |-> FALSE, device |-> 0, err |-> FALSE, n |-> 0]

\* no set command ran
NoArgs == [serial_number |-> <<>>, index |-> 0, state |-> "Off"]

\* find_relays, the enumerated devices with the identity of a relay board
RelaysInfo ==
    SelectSeq([d \in 1..Len(devs) |-> d],
              LAMBDA d : /\ devs[d].vendor_id = USB_RELAY_VID
                         /\ devs[d].product_id = USB_RELAY_PID)

\* the feature report of device d: the serial number at [0..5), the state
\* byte at [7]
FeatureReport(d) ==
    [i \in 1..REPORT_SIZE |->
        IF i <= SERIAL_NUMBER_SIZE THEN devs[d].serial[i]
        ELSE IF i = 8 THEN hw[d] ELSE 0]

\* the relay board: a report written whole switches relay buf[2] - 1 on
\* (opcode TurnOn) or off (opcode TurnOff); anything else changes nothing
HwApply(h, buf) ==
    LET r == At(buf, 2) - 1
        bit == (h \div Pow2(r)) % 2
    IN  IF r < 0 \/ r > 7 THEN h
        ELSE IF At(buf, 1) = TurnOn THEN h + (1 - bit) * Pow2(r)
        ELSE IF At(buf, 1) = TurnOff THEN h - bit * Pow2(r)
        ELSE h

\* the handles a vector of boards owns
Handles(relays) == {relays[k].hid_device : k \in 1..Len(relays)}

StartState ==
    /\ pc = "idle"
    /\ cmd = "none"
    /\ cursor = 0
    /\ usb_relays = <<>>
    /\ open = {}
    /\ opened = <<>>
    /\ found = "none"
    /\ status = "none"
    /\ last = NoCall
    /\ writes = <<>>
    /\ report = NoRead
    /\ args = NoArgs
    /\ stdout = <<>>

Init ==
    /\ \E n \in 0..MaxDevices :
          /\ devs \in [1..n -> Profiles]
          /\ hw \in [1..n -> InitStateBytes]
    /\ StartState

\* find_relays up to the loop: HidApi::new and the device list
FindRelaysCall ==
    /\ pc = "idle"
    /\ \E c \in {"list", "set", "api"}, apiOk \in BOOLEAN :
          /\ cmd' = c
          /\ IF apiOk
             THEN /\ pc' = "enum"
                  /\ cursor' = 1
                  /\ found' = found
             ELSE /\ pc' = "returned"
                  /\ cursor' = cursor
                  /\ found' = "TransportError"
    /\ UNCHANGED <<devs, hw, usb_relays, open, opened, status, last, writes,
                   report, args, stdout>>

\* find_relays, what one turn of the loop does with device d when open_device
\* succeeds or not and get_feature_report returns fr: the error that ends the
\* call, or the board to push
VisitDevice(d, openOk, fr) ==
    LET p == ProductCheck(devs[d].product)
        f == read_features([err |-> fr.err, rb |-> fr.n, buf |-> FeatureReport(d)])
    IN  IF p.result # "Ok"
        THEN [result |-> p.result, opens |-> <<>>, board |-> <<>>]
        ELSE IF ~openOk
        THEN [result |-> "TransportError", opens |-> <<>>, board |-> <<>>]
        ELSE IF f.result # "Ok"
        THEN [result |-> f.result, opens |-> <<d>>, board |-> <<>>]
        ELSE [result |-> "Ok", opens |-> <<d>>,
              board |-> <<[hid_device |-> d,
                           serial_number |-> f.serial_number,
                           relay_states |-> DecodeStates(p.relay_count, f.states)]>>]

\* a loop that skips a device that fails and goes on with the next
AfterVisit_skip(v, relays, handles, at) ==
    [pc |-> "enum", found |-> "none", usb_relays |-> relays \o v.board,
     open |-> handles \cup Handles(v.board), cursor |-> at + 1]

\* find_relays, how a turn of the loop goes on: after an error the call
\* returns, and leaving the function drops the boards built so far and the
\* handle just opened; otherwise the board is pushed
AfterVisit(v, relays, handles, at) ==
    IF v.result # "Ok"
    THEN [pc |-> "returned", found |-> v.result, usb_relays |-> <<>>,
          open |-> handles \ (Handles(relays) \cup Handles(v.board)), cursor |-> at]
    ELSE [pc |-> "enum", found |-> "none", usb_relays |-> relays \o v.board,
          open |-> handles \cup Handles(v.board), cursor |-> at + 1]

\* find_relays, one turn of the loop
FindRelaysDevice ==
    /\ pc = "enum"
    /\ cursor <= Len(RelaysInfo)
    /\ \E openOk \in BOOLEAN, fr \in TransportOutcomes :
          LET v == VisitDevice(RelaysInfo[cursor], openOk, fr)
              a == AfterVisit(v, usb_relays, open, cursor)
          IN  /\ pc' = a.pc
              /\ found' = a.found
              /\ usb_relays' = a.usb_relays
              /\ open' = a.open
              /\ cursor' = a.cursor
              /\ opened' = opened \o v.opens
              /\ report' = IF Len(v.opens) = 0 THEN report
                            ELSE [called |-> TRUE, device |-> RelaysInfo[cursor],
                                  err |-> fr.err, n |-> fr.n]
    /\ UNCHANGED <<devs, hw, cmd, status, last, writes, args, stdout>>

\* find_relays, Ok(usb_relays) after the last device
FindRelaysReturn ==
    /\ pc = "enum"
    /\ cursor > Len(RelaysInfo)
    /\ pc' = "returned"
    /\ found' = "Ok"
    /\ UNCHANGED <<devs, hw, cmd, cursor, usb_relays, open, opened, status, last,
                   writes, report, args, stdout>>

\* the hardware after the reports ws reached device d with outcome wr
HwAfter(d, ws, wr) ==
    IF ~wr.err /\ wr.n = REPORT_SIZE /\ Len(ws) > 0
    THEN [hw EXCEPT ![d] = HwApply(hw[d], ws[Len(ws)])]
    ELSE hw

\* the record of a call of set_state
CallRecord(self, relay_index, state, wr, r) ==
    [called |-> TRUE, device |-> self.hid_device, relay_index |-> relay_index,
     state |-> state, before |-> self.relay_states, after |-> r.relay_states,
     result |-> r.result, wr |-> IF Len(r.writes) = 0 THEN NoWrite ELSE wr]

\* a caller of the library calls set_state on board b of those it holds
SetState ==
    /\ pc = "returned"
    /\ cmd = "api"
    /\ found = "Ok"
    /\ \E b \in 1..Len(usb_relays), relay_index \in RelayIndices(MaxRelays(usb_relays)),
          state \in UsbRelayState, wr \in TransportOutcomes :
          LET self == usb_relays[b]
              r == set_state(self, relay_index, state, [err |-> wr.err, wb |-> wr.n])
          IN  /\ usb_relays' = [usb_relays EXCEPT ![b].relay_states = r.relay_states]
              /\ writes' = [k \in 1..Len(r.writes) |->
                               [device |-> self.hid_device, buf |-> r.writes[k]]]
              /\ hw' = HwAfter(self.hid_device, r.writes, wr)
              /\ last' = CallRecord(self, relay_index, state, wr, r)
    /\ UNCHANGED <<devs, pc, cmd, cursor, open, opened, found, status, report,
                   args, stdout>>

\* list_relays after find_relays returned Ok
ListRelays ==
    /\ pc = "returned"
    /\ cmd = "list"
    /\ found = "Ok"
    /\ stdout' = [k \in 1..Len(usb_relays) |-> DisplayBoard(usb_relays[k])]
    /\ status' = "Ok"
    /\ pc' = "done"
    /\ usb_relays' = <<>>
    /\ open' = open \ Handles(usb_relays)
    /\ UNCHANGED <<devs, hw, cmd, cursor, opened, found, last, writes, report, args>>

\* set_relay_state after find_relays returned Ok: the selection by serial
\* number, then set_state on the one board; the boards are dropped on return
SetRelayState ==
    /\ pc = "returned"
    /\ cmd = "set"
    /\ found = "Ok"
    /\ \E serial_number \in Targets, index \in RelayIndices(MaxRelays(usb_relays)),
          state \in UsbRelayState, wr \in TransportOutcomes :
          LET relays == MatchingRelays(usb_relays, serial_number)
              sel == Selection(relays)
          IN  /\ args' = [serial_number |-> serial_number, index |-> index,
                           state |-> state]
              /\ IF sel # "Ok"
                 THEN /\ status' = sel
                      /\ UNCHANGED <<hw, last, writes>>
                 ELSE LET relay == relays[1]
                          r == set_state(relay, index, state,
                                         [err |-> wr.err, wb |-> wr.n])
                      IN  /\ status' = r.result
                          /\ writes' = [k \in 1..Len(r.writes) |->
                                          [device |-> relay.hid_device,
                                           buf |-> r.writes[k]]]
                          /\ hw' = HwAfter(relay.hid_device, r.writes, wr)
                          /\ last' = CallRecord(relay, index, state, wr, r)
    /\ pc' = "done"
    /\ usb_relays' = <<>>
    /\ open' = open \ Handles(usb_relays)
    /\ UNCHANGED <<devs, cmd, cursor, opened, found, report, stdout>>

\* main returns (the error of find_relays with ?, or the command's result), or
\* the caller of the library lets go of the boards: every handle is closed
Exit ==
    /\ \/ pc = "done"
       \/ pc = "returned" /\ (found # "Ok" \/ cmd = "api")
    /\ pc' = "idle"
    /\ cmd' = "none"
    /\ cursor' = 0
    /\ usb_relays' = <<>>
    /\ open' = open \ Handles(usb_relays)
    /\ opened' = <<>>
    /\ found' = "none"
    /\ status' = "none"
    /\ last' = NoCall
    /\ writes' = <<>>
    /\ report' = NoRead
    /\ args' = NoArgs
    /\ stdout' = <<>>
    /\ UNCHANGED <<devs, hw>>

Next ==
    \/ FindRelaysCall
    \/ FindRelaysDevice
    \/ FindRelaysReturn
    \/ SetState
    \/ ListRelays
    \/ SetRelayState
    \/ Exit

Spec == Init /\ [][Next]_vars

(***************************************************************************)
(* The same program over other devices: one board of every supported relay  *)
(* count with every state byte, and one device with a product string put    *)
(* together from pieces.                                                    *)
(***************************************************************************)
DigitChar(n) ==
    CASE n = 0 -> "0" [] n = 1 -> "1" [] n = 2 -> "2" [] n = 3 -> "3"
      [] n = 4 -> "4" [] n = 5 -> "5" [] n = 6 -> "6" [] n = 7 -> "7"
      [] n = 8 -> "8" [] n = 9 -> "9"

InitDecode ==
    /\ \E n \in 0..MAX_RELAY_COUNT :
          devs = <<Device(USB_RELAY_VID, USB_RELAY_PID, Prefix \o <<DigitChar(n)>>,
                          SerialA)>>
    /\ hw \in [{1} -> Byte]
    /\ StartState

SpecDecode == InitDecode /\ [][Next]_vars

\* what a product string is put together from
Pieces == {Prefix, <<"U", "S", "B">>, <<"X">>, <<"+">>, <<"0">>, <<"4">>, <<"9">>}

RECURSIVE Flatten(_)
Flatten(ps) == IF Len(ps) = 0 THEN <<>> ELSE Head(ps) \o Flatten(Tail(ps))

ProductStrings ==
    {Flatten(ps) : ps \in UNION {[1..n -> Pieces] : n \in 0..MaxPieces}}
    \cup {NoString}

InitProduct ==
    /\ \E p \in ProductStrings :
          devs = <<Device(USB_RELAY_VID, USB_RELAY_PID, p, SerialA)>>
    /\ hw \in [{1} -> InitStateBytes]
    /\ StartState

SpecProduct == InitProduct /\ [][Next]_vars

(***************************************************************************)
(* Properties.                                                              *)
(***************************************************************************)
\* bit i of byte b, bit 0 the least significant
BitSet(b, i) == (b \div Pow2(i)) % 2 = 1

\* the transport reported a whole report
Wrote9(wr) == ~wr.err /\ wr.n = 9

\* the boards a caller of the library holds after set_state agree with the
\* record of the call
HeldAfterCall ==
    (last.called /\ cmd = "api") =>
        \E k \in 1..Len(usb_relays) :
            /\ usb_relays[k].hid_device = last.device
            /\ usb_relays[k].relay_states = last.after

\* C1: a set_state call with relay_index below the relay count N whose write
\* reports 9 bytes returns Ok; afterwards the entry at relay_index is the
\* desired state, every other entry is what it was, and there are still N
\* entries.
C1_SetStateUpdatesExactlyOne ==
    (last.called /\ last.relay_index < Len(last.before) /\ Wrote9(last.wr)) =>
        /\ last.result = "Ok"
        /\ Len(last.after) = Len(last.before)
        /\ last.after[last.relay_index + 1] = last.state
        /\ \A j \in 0..(Len(last.before) - 1) :
              j # last.relay_index => last.after[j + 1] = last.before[j + 1]
        /\ HeldAfterCall

\* C1 happens: the last relay of a board of 8 was switched to the other state
C1_Witness ==
    /\ last.called /\ last.result = "Ok" /\ Wrote9(last.wr)
    /\ Len(last.before) = 8 /\ last.relay_index = 7
    /\ last.before[8] # last.state

\* C2: a set_state call with relay_index at or above the relay count N fails
\* with the index-out-of-range error, leaves the relay states as they were
\* and writes no report.
C2_IndexOutOfRange ==
    (last.called /\ last.relay_index >= Len(last.before)) =>
        /\ last.result = "IndexOutOfRangeError"
        /\ last.after = last.before
        /\ writes = <<>>
        /\ HeldAfterCall

\* C2 happens: index 255 on a board without relays
C2_Witness ==
    /\ last.called /\ Len(last.before) = 0 /\ last.relay_index = 255
    /\ last.result = "IndexOutOfRangeError"

\* C3: when the write of set_state fails, by a transport error or by a byte
\* count other than 9, set_state returns an error (TransportError,
\* ProtocolError), the relay states are as before, and the write was
\* attempted once.
C3_FailedWriteLeavesStates ==
    (last.called /\ Len(writes) > 0 /\ ~Wrote9(last.wr)) =>
        /\ last.result = (IF last.wr.err THEN "TransportError" ELSE "ProtocolError")
        /\ last.after = last.before
        /\ Len(writes) = 1
        /\ HeldAfterCall

\* C3 happens: a short write to the second of two boards
C3_Witness ==
    /\ last.called /\ ~last.wr.err /\ last.wr.n = 8
    /\ Len(writes) = 1
    /\ cmd = "api" /\ Len(usb_relays) = 2 /\ last.device = usb_relays[2].hid_device

\* the relay count the product string "USBRelay<digit>" advertises
Advertised(d) == DigitVal(devs[d].product[Len(Prefix) + 1])

\* C4: the board find_relays builds for a device advertising N relays (N in
\* 0..8) whose feature report carries state byte b has exactly N relay states,
\* and relay i is On exactly when bit i of b is set; the bits from N on do
\* not show.
C4_DecodeBitmap ==
    ~last.called =>
        \A k \in 1..Len(usb_relays) :
            LET d == usb_relays[k].hid_device
                rs == usb_relays[k].relay_states
            IN  /\ Len(rs) = Advertised(d)
                /\ \A i \in 0..(Len(rs) - 1) : (rs[i + 1] = "On") <=> BitSet(hw[d], i)
                /\ \A b \in Byte :
                      b % Pow2(Len(rs)) = hw[d] % Pow2(Len(rs)) =>
                          \A i \in 0..(Len(rs) - 1) : (rs[i + 1] = "On") <=> BitSet(b, i)

\* C4 happens: a board of 4 decoded from 11111010
C4_Witness ==
    /\ pc = "returned" /\ found = "Ok" /\ ~last.called
    /\ Len(usb_relays) = 1
    /\ hw[1] = 250
    /\ usb_relays[1].relay_states = <<"Off", "On", "Off", "On">>

\* what C5 says of a product string: the prefix once, then a decimal integer
\* of at most 8
C5_Expected(product) ==
    IF product = NoString THEN "ProductStringError"
    ELSE IF ~StartsWith(product, Prefix) THEN "UnsupportedProductError"
    ELSE LET parsed == ParseUsize(SubSeq(product, Len(Prefix) + 1, Len(product)))
         IN  IF ~parsed.ok THEN "ParseError"
             ELSE IF parsed.value > 8 THEN "UnsupportedProductError"
             ELSE "Ok"

\* C5: find_relays builds a board only for a product string that is
\* "USBRelay" followed by a decimal integer of at most 8; without the prefix
\* it fails with UnsupportedProductError, with a remainder after that one
\* prefix that is no decimal integer with ParseError, with a count above 8
\* with UnsupportedProductError.
C5_ProductString ==
    (pc = "returned" /\ cursor >= 1) =>
        LET e == C5_Expected(devs[1].product)
        IN  /\ found = "Ok" => e = "Ok"
            /\ e # "Ok" => found = e

\* C6: a feature report read that returns a byte count other than 9 makes
\* read_features fail with ProtocolError, and find_relays returns no board.
C6_ShortFeatureReport ==
    (report.called /\ ~report.err /\ report.n # 9) =>
        /\ pc = "returned"
        /\ found = "ProtocolError"
        /\ usb_relays = <<>>
        /\ report.device \notin open

\* C6 happens: the second device answered with 8 bytes
C6_Witness ==
    /\ report.called /\ ~report.err /\ report.n = 8
    /\ Len(opened) = 2 /\ report.device = opened[2]

\* the discovered devices with the serial number the set command asked for
C7_Matches ==
    {d \in 1..Len(devs) :
        /\ devs[d].vendor_id = USB_RELAY_VID
        /\ devs[d].product_id = USB_RELAY_PID
        /\ devs[d].serial = args.serial_number}

\* C7: the set command fails with NotFoundError when no discovered board has
\* the serial number asked for and with AmbiguousIdentityError when two or
\* more have it, writing no report in either case; set_state is called only
\* when exactly one board matches, and then on that board with the
\* command's index and state.
C7_Selection ==
    (pc = "done" /\ cmd = "set") =>
        /\ C7_Matches = {} => (status = "NotFoundError" /\ ~last.called /\ writes = <<>>)
        /\ Cardinality(C7_Matches) >= 2 =>
              (status = "AmbiguousIdentityError" /\ ~last.called /\ writes = <<>>)
        /\ Cardinality(C7_Matches) = 1 =>
              /\ last.called
              /\ last.device \in C7_Matches
              /\ last.relay_index = args.index
              /\ last.state = args.state
              /\ status = last.result
        /\ \A k \in 1..Len(writes) : writes[k].device \in C7_Matches

\* C7 happens: two boards with the serial number asked for
C7_Witness ==
    /\ pc = "done" /\ cmd = "set"
    /\ status = "AmbiguousIdentityError"
    /\ Cardinality(C7_Matches) = 2

\* C8: set_state with relay_index below the relay count N <= 8 hands the
\* transport one write of 9 bytes: byte 1 is 0xFF for On and 0xFD for Off,
\* byte 2 is relay_index + 1, a value in 1..N, every other byte is zero.
C8_CommandBuffer ==
    (last.called /\ last.relay_index < Len(last.before)) =>
        /\ Len(last.before) <= 8
        /\ Len(writes) = 1
        /\ writes[1].device = last.device
        /\ LET buf == writes[1].buf
           IN  /\ Len(buf) = 9
               /\ buf[2] = (IF last.state = "On" THEN 255 ELSE 253)
               /\ buf[3] = last.relay_index + 1
               /\ buf[3] >= 1 /\ buf[3] <= Len(last.before)
               /\ \A i \in (1..9) \ {2, 3} : buf[i] = 0

\* C8 happens: relay 7 of a board of 8 is turned on
C8_Witness ==
    /\ last.called /\ last.relay_index = 7 /\ last.state = "On"
    /\ Len(last.before) = 8
    /\ Len(writes) = 1 /\ writes[1].buf[3] = 8

\* C9: find_relays visits the enumerated devices in order and stops at the
\* first that fails; it then returns the error and no board, has opened no
\* later device, and holds no open handle.  When no device fails it returns
\* one board per enumerated device, in the order of the enumeration.
C9_FirstErrorAborts ==
    /\ pc = "enum" =>
          /\ opened = SubSeq(RelaysInfo, 1, cursor - 1)
          /\ [k \in 1..Len(usb_relays) |-> usb_relays[k].hid_device] = opened
    /\ (pc = "returned" /\ found # "Ok") =>
          /\ usb_relays = <<>>
          /\ open = {}
          /\ \/ opened = SubSeq(RelaysInfo, 1, cursor - 1)
             \/ opened = SubSeq(RelaysInfo, 1, cursor)
          /\ \A k \in 1..(cursor - 1) :
                /\ ProductCheck(devs[RelaysInfo[k]].product).result = "Ok"
                /\ Utf8Valid(devs[RelaysInfo[k]].serial)
    /\ (pc = "returned" /\ found = "Ok") =>
          /\ [k \in 1..Len(usb_relays) |-> usb_relays[k].hid_device] = RelaysInfo
          /\ opened = RelaysInfo
          /\ open = {RelaysInfo[k] : k \in 1..Len(RelaysInfo)}

\* C9 happens: the second device was opened and failed, the first is released
C9_Witness ==
    /\ pc = "returned" /\ found = "EncodingError"
    /\ cursor = 2 /\ Len(opened) = 2
    /\ open = {}

\* C10: with a hardware that switches relay byte[2] - 1 exactly when a write
\* reports 9 bytes, the relay states in memory are those of the hardware after
\* discovery and after every set_state call, whether it succeeded or failed.
C10_MemoryMatchesHardware ==
    /\ \A k \in 1..Len(usb_relays) :
          \A i \in 0..(Len(usb_relays[k].relay_states) - 1) :
              (usb_relays[k].relay_states[i + 1] = "On")
                  <=> BitSet(hw[usb_relays[k].hid_device], i)
    /\ last.called =>
          \A i \in 0..(Len(last.after) - 1) :
              (last.after[i + 1] = "On") <=> BitSet(hw[last.device], i)

\* C10 happens: a failed call after the hardware was switched
C10_Witness ==
    /\ cmd = "api" /\ last.called /\ last.result = "ProtocolError"
    /\ Len(usb_relays) = 2
    /\ hw[last.device] # 170

====
